---- MODULE Spec2Model ----
(***************************************************************************)
(* BurnAI data-fusion and scoring pipeline (backend/process_data.py).      *)
(*                                                                         *)
(* Numbers.  The program computes with Python/numpy floats.  A number is   *)
(* modelled as an exact rational [n |-> numerator, d |-> denominator > 0]  *)
(* in lowest terms; the float NaN is the value [n |-> 0, d |-> 0].  Binary *)
(* rounding of floats is not modelled.                                     *)
(* Coordinates are kept in tenths of a degree (37.7 is 377), NDVI and all  *)
(* other quantities in their own unit as rationals.                        *)
(***************************************************************************)
EXTENDS Integers, Sequences, FiniteSets, TLC

VARIABLES
    registry,       \* the module-level COUNTIES table, in dict order
    args,           \* scoring: the summary handed to calculate_suitability_score
    args2,          \* scoring: a second summary, differing from args in one factor
    out,            \* scoring: what the code computes from args
    out2,           \* scoring: what the code computes from args2
    spc,            \* scoring: "input", "scored" or "compared"
    point,          \* spatial assignment: the (lat, lon) handed to assign_to_county
    assigned,       \* spatial assignment: what assign_to_county returned
    apc,            \* spatial assignment: "input" or "assigned"
    fire_df,        \* run: what load_fire_data returns (a frame, or NoFrame for None)
    weather_df,     \* run: what load_weather_data returns
    vegetation_df,  \* run: what load_vegetation_data returns
    pc,             \* run: position in process_data_by_county
    idx,            \* run: index in the registry of the county being processed
    county_data,    \* run: the dict county id -> record built so far
    processed,      \* run: the files under data/processed, name -> rows
    returned,       \* run: what process_data_by_county returned
    fire_files,     \* run: the entries of data/fire, in glob order
    weather_files,  \* run: the entries of data/weather, in glob order
    vegetation_files, \* run: the entries of data/vegetation, in glob order
    summaries,      \* run: the locals of the loop, county id -> summary
    saved,          \* run: what save_processed_data returned
    exit_status,    \* run: the exit status of the process
    processed0,     \* run: the files under data/processed when the run started
    directory,      \* file selection: the entries handed to get_latest_file
    latest,         \* file selection: what get_latest_file returned
    lpc,            \* file selection: "input" or "selected"
    counties_response, \* API: the answer of GET /api/counties
    refresh,        \* API refresh: request -> its handler and background tasks
    pipeline,       \* run_pipeline.main: its position and the stages' results
    analysis,       \* ai_analysis: the state of the process
    assessments,    \* the files under data/assessments, name -> content
    assessment_response \* API: the answer of GET /api/counties/{id}/assessment

scoreVars == <<args, args2, out, out2, spc>>
assignVars == <<point, assigned, apc>>
runVars == <<fire_df, weather_df, vegetation_df, pc, idx, county_data, processed, returned,
             fire_files, weather_files, vegetation_files, summaries, saved, exit_status,
             processed0>>
latestVars == <<directory, latest, lpc>>
stageVars == <<counties_response, refresh, pipeline, analysis, assessments, assessment_response>>
vars == <<registry, scoreVars, assignVars, runVars, latestVars, stageVars>>

None == "None"

(***************************************************************************)
(* Exact rational arithmetic standing for float arithmetic.                *)
(***************************************************************************)
Abs(x) == IF x < 0 THEN -x ELSE x

RECURSIVE GCD(_, _)
GCD(a, b) == IF b = 0 THEN a ELSE GCD(b, a % b)

NaN == [n |-> 0, d |-> 0]

IsNaN(x) == x.d = 0

Norm(n, d) ==
    LET g == GCD(Abs(n), Abs(d))
        s == IF d < 0 THEN -1 ELSE 1
    IN  [n |-> s * (n \div g), d |-> s * (d \div g)]

Rat(n, d) == Norm(n, d)

Num(k) == [n |-> k, d |-> 1]

Add(x, y) ==
    IF IsNaN(x) \/ IsNaN(y) THEN NaN
    ELSE LET g == GCD(x.d, y.d)
         IN  Norm(x.n * (y.d \div g) + y.n * (x.d \div g), (x.d \div g) * y.d)

Neg(x) == [n |-> -x.n, d |-> x.d]

Sub(x, y) == Add(x, Neg(y))

Mul(x, y) ==
    IF IsNaN(x) \/ IsNaN(y) THEN NaN
    ELSE LET g1 == GCD(Abs(x.n), y.d)
             g2 == GCD(Abs(y.n), x.d)
             h1 == IF g1 = 0 THEN 1 ELSE g1
             h2 == IF g2 = 0 THEN 1 ELSE g2
         IN  Norm((x.n \div h1) * (y.n \div h2), (x.d \div h2) * (y.d \div h1))

\* x / k for a non-zero integer literal k
Div(x, k) == Mul(x, Rat(1, k))

\* comparisons; every comparison with NaN is false, as for floats
Lt(x, y) == ~IsNaN(x) /\ ~IsNaN(y) /\ x.n * y.d < y.n * x.d
Gt(x, y) == Lt(y, x)
Le(x, y) == ~IsNaN(x) /\ ~IsNaN(y) /\ x.n * y.d <= y.n * x.d
Ge(x, y) == Le(y, x)

\* Python's builtin min(a, b) and max(a, b): the first argument unless the
\* second is strictly smaller (larger)
py_min(a, b) == IF Lt(b, a) THEN b ELSE a
py_max(a, b) == IF Gt(b, a) THEN b ELSE a

\* Python's int(x) on a float: truncation towards zero
py_int(x) == IF x.n >= 0 THEN x.n \div x.d ELSE -((-x.n) \div x.d)

\* the mathematical floor
Floor(x) == x.n \div x.d

(***************************************************************************)
(* The region registry: COUNTIES, a dict iterated in insertion order.      *)
(* Bounds in tenths of a degree.                                           *)
(***************************************************************************)
COUNTIES ==
    << [name |-> "San Francisco", id |-> "sf",
        bounds |-> [minlat |-> 377, maxlat |-> 378, minlon |-> -1225, maxlon |-> -1223]],
       [name |-> "Los Angeles", id |-> "la",
        bounds |-> [minlat |-> 337, maxlat |-> 348, minlon |-> -1187, maxlon |-> -1177]] >>

(***************************************************************************)
(* assign_to_county: the first county of the registry, in its order, whose *)
(* bounds contain the point.                                               *)
(***************************************************************************)
RECURSIVE scan_counties(_, _, _)
scan_counties(lat, lon, i) ==
    IF i > Len(registry) THEN None
    ELSE LET bounds == registry[i].bounds
         IN  IF /\ bounds.minlat <= lat /\ lat <= bounds.maxlat
                /\ bounds.minlon <= lon /\ lon <= bounds.maxlon
             THEN registry[i].id
             ELSE scan_counties(lat, lon, i + 1)

RECURSIVE scan_counties_open_top(_, _, _)
scan_counties_open_top(lat, lon, i) ==
    IF i > Len(registry) THEN None
    ELSE LET bounds == registry[i].bounds
         IN  IF /\ bounds.minlat <= lat /\ lat < bounds.maxlat
                /\ bounds.minlon <= lon /\ lon <= bounds.maxlon
             THEN registry[i].id
             ELSE scan_counties_open_top(lat, lon, i + 1)

\* mutant: the upper latitude edge exclusive
assign_to_county_open_top(lat, lon) == scan_counties_open_top(lat, lon, 1)

assign_to_county(lat, lon) == scan_counties(lat, lon, 1)

(***************************************************************************)
(* calculate_suitability_score                                             *)
(***************************************************************************)
\* mutant: the temperature and wind weights exchanged
weights_swapped ==
    << Rat(-2, 10), Rat(-1, 10), Rat(-2, 10), Rat(25, 100), Rat(-15, 100), Rat(1, 10) >>

weights ==
    << Rat(-2, 10), Rat(-1, 10), Rat(-15, 100), Rat(25, 100), Rat(-2, 10), Rat(1, 10) >>

\* mutant: the fire count capped at 10 instead of 20
normalized_factors_cap10(recent_fires, avg_frp, temperature, humidity, wind_speed, ndvi) ==
    << py_min(Num(1), Div(recent_fires, 10)),
       py_min(Num(1), Div(avg_frp, 1000)),
       Div(Sub(temperature, Num(50)), 50),
       Div(humidity, 100),
       Div(wind_speed, 20),
       ndvi >>

normalized_factors(recent_fires, avg_frp, temperature, humidity, wind_speed, ndvi) ==
    << py_min(Num(1), Div(recent_fires, 20)),
       py_min(Num(1), Div(avg_frp, 1000)),
       Div(Sub(temperature, Num(50)), 50),
       Div(humidity, 100),
       Div(wind_speed, 20),
       ndvi >>

\* np.sum(normalized_factors * weights)
RECURSIVE SumProducts(_, _, _)
SumProducts(f, w, i) ==
    IF i > Len(f) THEN Num(0)
    ELSE Add(Mul(f[i], w[i]), SumProducts(f, w, i + 1))

\* mutant: the sum stops one factor short
weighted_sum_short(normalized) == SumProducts(SubSeq(normalized, 1, 5), weights, 1)

weighted_sum(normalized) == SumProducts(normalized, weights, 1)

\* mutant: a higher base
base_score_raised == 50 + 20

base_score == 50

unclamped_score(normalized) == Add(Num(base_score), Mul(weighted_sum(normalized), Num(50)))

\* mutant: the upper clamp forgotten
clamp_score_no_upper(score) == py_max(Num(0), score)

clamp_score(score) == py_max(Num(0), py_min(Num(100), score))

calculate_suitability_score(recent_fires, avg_frp, temperature, humidity, wind_speed, ndvi) ==
    clamp_score(unclamped_score(
        normalized_factors(recent_fires, avg_frp, temperature, humidity, wind_speed, ndvi)))

(***************************************************************************)
(* process_data_by_county: the record built for one county from its        *)
(* summary.                                                                *)
(***************************************************************************)
\* mutant: the upper threshold inclusive
hazard_proximity_ge(suitability_score) ==
    IF Ge(suitability_score, Num(80)) THEN "Low"
    ELSE IF Gt(suitability_score, Num(60)) THEN "Medium" ELSE "High"

hazard_proximity(suitability_score) ==
    IF Gt(suitability_score, Num(80)) THEN "Low"
    ELSE IF Gt(suitability_score, Num(60)) THEN "Medium" ELSE "High"

\* mutant: the lower threshold at 40
riskLevel_above_40(suitability_score) ==
    IF Gt(suitability_score, Num(80)) THEN "Low"
    ELSE IF Gt(suitability_score, Num(40)) THEN "Moderate" ELSE "High"

riskLevel(suitability_score) ==
    IF Gt(suitability_score, Num(80)) THEN "Low"
    ELSE IF Gt(suitability_score, Num(60)) THEN "Moderate" ELSE "High"

\* mutant: the colour taken from the truncated score
riskColor_from_int(suitability_score) ==
    IF py_int(suitability_score) > 80 THEN "green"
    ELSE IF py_int(suitability_score) > 60 THEN "yellow" ELSE "red"

riskColor(suitability_score) ==
    IF Gt(suitability_score, Num(80)) THEN "green"
    ELSE IF Gt(suitability_score, Num(60)) THEN "yellow" ELSE "red"

score_of(suitability_score) == py_int(Mul(suitability_score, Rat(7, 10)))

\* mutant: truncation applied to the product instead of the difference
firmsScore_trunc_first(suitability_score) ==
    100 - py_int(Mul(suitability_score, Rat(5, 10)))

firmsScore(suitability_score) ==
    py_int(Sub(Num(100), Mul(suitability_score, Rat(5, 10))))

historicalScore(suitability_score) ==
    py_int(Sub(Num(100), Mul(suitability_score, Rat(6, 10))))

historicalAvg(recent_fires) ==
    LET k == py_int(Mul(Num(recent_fires), Rat(8, 10))) IN IF k > 1 THEN k ELSE 1

county_entry(county_info, recent_fires, avg_frp, county_weather, county_ndvi) ==
    LET suitability_score ==
            calculate_suitability_score(Num(recent_fires), avg_frp,
                county_weather.temperature, county_weather.humidity,
                county_weather.windSpeed, county_ndvi)
        bounds == county_info.bounds
    IN  [id |-> county_info.id,
         name |-> county_info.name,
         coordinates |-> << Rat(bounds.minlat + bounds.maxlat, 2),
                            Rat(bounds.minlon + bounds.maxlon, 2) >>,
         score |-> score_of(suitability_score),
         riskLevel |-> riskLevel(suitability_score),
         riskColor |-> riskColor(suitability_score),
         recentFires |-> recent_fires,
         heatMW |-> py_int(avg_frp),
         firmsScore |-> firmsScore(suitability_score),
         historicalAvg |-> historicalAvg(recent_fires),
         historicalScore |-> historicalScore(suitability_score),
         suitabilityScore |-> py_int(suitability_score),
         weatherConditions |-> county_weather,
         hazardProximity |-> hazard_proximity(suitability_score),
         firePersonnel |-> IF county_info.id = "sf" THEN 15 ELSE 12,
         equipmentStatus |-> "Ready",
         permitStatus |-> IF county_info.id = "sf" THEN "Approved" ELSE "Pending"]


(***************************************************************************)
(* process_data_by_county: loading, the per-county aggregation, saving.    *)
(* A frame is [columns |-> set of column names, rows |-> sequence of       *)
(* records over those columns]; NoFrame stands for a loader's None.        *)
(***************************************************************************)
NoFrame == [missing |-> TRUE]

Frame(rows) == [rows |-> rows]

\* pandas Series.mean(): the mean of the cells that are not NaN, NaN when
\* there is none
RECURSIVE SumColumn(_, _, _)
SumColumn(rows, column, i) ==
    IF i > Len(rows) THEN Num(0)
    ELSE Add(rows[i][column], SumColumn(rows, column, i + 1))

mean(rows, column) ==
    LET present(r) == ~IsNaN(r[column])
        cells == SelectSeq(rows, present)
    IN  IF Len(cells) = 0 THEN NaN ELSE Div(SumColumn(cells, column, 1), Len(cells))

\* mutant: the upper latitude edge exclusive in the filter
county_fire_df_open_top(rows, bounds) ==
    LET inside(r) == /\ r.latitude >= bounds.minlat /\ r.latitude < bounds.maxlat
                     /\ r.longitude >= bounds.minlon /\ r.longitude <= bounds.maxlon
    IN  SelectSeq(rows, inside)

\* mutant: the longitude is not compared
county_fire_df_lat_only(rows, bounds) ==
    LET inside(r) == r.latitude >= bounds.minlat /\ r.latitude <= bounds.maxlat
    IN  SelectSeq(rows, inside)

\* the rows of fire_df inside the county's bounds
county_fire_df(rows, bounds) ==
    LET inside(r) == /\ r.latitude >= bounds.minlat /\ r.latitude <= bounds.maxlat
                     /\ r.longitude >= bounds.minlon /\ r.longitude <= bounds.maxlon
    IN  SelectSeq(rows, inside)

county_weather_of(weather) ==
    [temperature |-> IF "TAVG" \in weather.columns THEN mean(weather.rows, "TAVG") ELSE Num(70),
     humidity |-> IF "RHAVG" \in weather.columns THEN mean(weather.rows, "RHAVG") ELSE Num(50),
     windSpeed |-> IF "AWND" \in weather.columns THEN mean(weather.rows, "AWND") ELSE Num(5),
     windDirection |-> "NW"]

\* mutant: no vegetation without the column
county_ndvi_of_zero(vegetation) ==
    IF "ndvi" \in vegetation.columns THEN mean(vegetation.rows, "ndvi") ELSE Num(0)

county_ndvi_of(vegetation) ==
    IF "ndvi" \in vegetation.columns THEN mean(vegetation.rows, "ndvi") ELSE Rat(5, 10)

\* mutant: frp is read whether or not the county has rows
RaisesKeyError_eager(fire, bounds) ==
    \/ ~({"latitude", "longitude"} \subseteq fire.columns)
    \/ "frp" \notin fire.columns

\* the column accesses of one loop iteration that raise KeyError
RaisesKeyError(fire, bounds) ==
    \/ ~({"latitude", "longitude"} \subseteq fire.columns)
    \/ /\ "frp" \notin fire.columns
       /\ Len(county_fire_df(fire.rows, bounds)) > 0

\* the locals of one loop iteration
summary_of(county_info, fire, weather, vegetation) ==
    LET rows == county_fire_df(fire.rows, county_info.bounds)
        county_weather == county_weather_of(weather)
    IN  [recent_fires |-> Len(rows),
         avg_frp |-> IF Len(rows) > 0 THEN mean(rows, "frp") ELSE Num(0),
         temperature |-> county_weather.temperature,
         humidity |-> county_weather.humidity,
         wind_speed |-> county_weather.windSpeed,
         ndvi |-> county_ndvi_of(vegetation)]

process_county(county_info, fire, weather, vegetation) ==
    LET rows == county_fire_df(fire.rows, county_info.bounds)
        recent_fires == Len(rows)
        avg_frp == IF Len(rows) > 0 THEN mean(rows, "frp") ELSE Num(0)
    IN  county_entry(county_info, recent_fires, avg_frp,
                     county_weather_of(weather), county_ndvi_of(vegetation))

(***************************************************************************)
(* save_processed_data: one file per county with the weather dict          *)
(* flattened, and all_counties.csv built from the records as they are.     *)
(***************************************************************************)
flat_data(data) ==
    LET kept == DOMAIN data \ {"weatherConditions"}
        added == {"weather_temperature", "weather_humidity",
                  "weather_windSpeed", "weather_windDirection"}
    IN  [k \in kept \cup added |->
            CASE k = "weather_temperature" -> data.weatherConditions.temperature
              [] k = "weather_humidity" -> data.weatherConditions.humidity
              [] k = "weather_windSpeed" -> data.weatherConditions.windSpeed
              [] k = "weather_windDirection" -> data.weatherConditions.windDirection
              [] OTHER -> data[k]]

\* mutant: to_csv appends to an existing file
WriteFile_append(files, name, rows) ==
    [f \in DOMAIN files \cup {name} |->
        IF f = name THEN (IF name \in DOMAIN files THEN files[name] \o rows ELSE rows)
        ELSE files[f]]

\* to_csv: the file is replaced
WriteFile(files, name, rows) ==
    [f \in DOMAIN files \cup {name} |-> IF f = name THEN rows ELSE files[f]]

RECURSIVE save_counties(_, _, _)
save_counties(files, data, i) ==
    IF i > Len(registry) THEN files
    ELSE LET county_id == registry[i].id
         IN  save_counties(
                 WriteFile(files, county_id \o "_processed.csv", << flat_data(data[county_id]) >>),
                 data, i + 1)

save_processed_data(files, data) ==
    WriteFile(save_counties(files, data, 1), "all_counties.csv",
              [i \in 1..Len(registry) |-> data[registry[i].id]])

\* the files as an exception in the n-th to_csv of save_processed_data leaves
\* them: the writes before it done, the n-th and the later ones not
RECURSIVE save_counties_before(_, _, _, _)
save_counties_before(files, data, i, n) ==
    IF i > Len(registry) \/ i >= n THEN files
    ELSE LET county_id == registry[i].id
         IN  save_counties_before(
                 WriteFile(files, county_id \o "_processed.csv", << flat_data(data[county_id]) >>),
                 data, i + 1, n)

(***************************************************************************)
(* The source directories and the loaders.  An entry of a directory is     *)
(* [matches |-> whether its name matches the loader's pattern,             *)
(*  ctime |-> os.path.getctime, content |-> a frame, or Unreadable when    *)
(*  pd.read_csv raises on it].                                             *)
(***************************************************************************)
Unreadable == [unreadable |-> TRUE]

NoFile == [nofile |-> TRUE]

\* glob.glob(os.path.join(directory, pattern))
glob(entries) ==
    LET matching(f) == f.matches IN SelectSeq(entries, matching)

\* max(files, key=os.path.getctime): the first entry with the largest key
RECURSIVE max_by_ctime(_, _, _)
max_by_ctime(files, best, i) ==
    IF i > Len(files) THEN best
    ELSE max_by_ctime(files, IF files[i].ctime > files[best].ctime THEN i ELSE best, i + 1)

\* mutant: min instead of max
RECURSIVE min_by_ctime(_, _, _)
min_by_ctime(files, best, i) ==
    IF i > Len(files) THEN best
    ELSE min_by_ctime(files, IF files[i].ctime < files[best].ctime THEN i ELSE best, i + 1)

get_latest_file_oldest(entries) ==
    LET files == glob(entries)
    IN  IF Len(files) = 0 THEN NoFile ELSE files[min_by_ctime(files, 1, 2)]

get_latest_file(entries) ==
    LET files == glob(entries)
    IN  IF Len(files) = 0 THEN NoFile ELSE files[max_by_ctime(files, 1, 2)]

\* mutant: an unreadable snapshot loads as a frame without rows or columns
load_fire_data_swallow(entries) ==
    LET latest_file == get_latest_file(entries)
    IN  IF latest_file = NoFile THEN NoFrame
        ELSE IF latest_file.content = Unreadable
             THEN [columns |-> {"latitude", "longitude", "frp"}, rows |-> << >>]
             ELSE latest_file.content

load_fire_data(entries) ==
    LET latest_file == get_latest_file(entries)
    IN  IF latest_file = NoFile THEN NoFrame
        ELSE IF latest_file.content = Unreadable THEN NoFrame
             ELSE latest_file.content

\* pd.concat(dfs, ignore_index=True): the union of the columns, the rows in
\* order, NaN where a frame lacks a column
RECURSIVE concat_columns(_, _)
concat_columns(files, i) ==
    IF i > Len(files) THEN {} ELSE files[i].content.columns \cup concat_columns(files, i + 1)

RECURSIVE concat_rows(_, _, _)
concat_rows(files, columns, i) ==
    IF i > Len(files) THEN << >>
    ELSE LET frame == files[i].content
             widened == [k \in 1..Len(frame.rows) |->
                            [c \in columns |->
                                IF c \in frame.columns THEN frame.rows[k][c] ELSE NaN]]
         IN  widened \o concat_rows(files, columns, i + 1)

concat(files) ==
    LET columns == concat_columns(files, 1)
    IN  [columns |-> columns, rows |-> concat_rows(files, columns, 1)]

\* mutant: only the latest weather file is read
load_weather_data_latest(entries) ==
    LET latest_file == get_latest_file(entries)
    IN  IF latest_file = NoFile THEN NoFrame
        ELSE IF latest_file.content = Unreadable THEN NoFrame
             ELSE latest_file.content

load_weather_data(entries) ==
    LET weather_files_ == glob(entries)
    IN  IF Len(weather_files_) = 0 THEN NoFrame
        ELSE IF \E i \in 1..Len(weather_files_) : weather_files_[i].content = Unreadable
             THEN NoFrame
             ELSE concat(weather_files_)

load_vegetation_data(entries) ==
    LET latest_file == get_latest_file(entries)
    IN  IF latest_file = NoFile THEN NoFrame
        ELSE IF latest_file.content = Unreadable THEN NoFrame
             ELSE latest_file.content

(***************************************************************************)
(* Specification ScoreSpec: the scoring model as a pure function.  Init    *)
(* draws a summary; Score applies the code to it; Vary changes one factor  *)
(* of the summary and applies the code again.                              *)
(***************************************************************************)
ExtremeFires == 10000
ExtremeFrp == 2000
ExtremeHumidity == 400
ExtremeWind == 200

FireCountValues == {0, 10, 20, ExtremeFires}
FrpValues == {Num(0), Num(2), Num(ExtremeFrp)}
TemperatureValues == {Num(0), Num(50), Num(75), Num(100)}
HumidityValues == {Num(0), Num(40), Num(80), Num(90), Num(100), Num(240), Num(ExtremeHumidity)}
WindValues == {Num(0), Num(8), Num(60), Num(ExtremeWind)}
NdviValues == {Num(0), Rat(1, 2), Num(1)}

Summaries ==
    [recent_fires : FireCountValues, avg_frp : FrpValues, temperature : TemperatureValues,
     humidity : HumidityValues, wind_speed : WindValues, ndvi : NdviValues]

Factors == {"recent_fires", "avg_frp", "temperature", "humidity", "wind_speed", "ndvi"}

ValuesOf(factor) ==
    CASE factor = "recent_fires" -> FireCountValues
      [] factor = "avg_frp" -> FrpValues
      [] factor = "temperature" -> TemperatureValues
      [] factor = "humidity" -> HumidityValues
      [] factor = "wind_speed" -> WindValues
      [] factor = "ndvi" -> NdviValues

NoOutput == [status |-> "none"]

\* what the code computes from one summary: the intermediate values of
\* calculate_suitability_score and the county record built from its result
Evaluate(a) ==
    LET normalized == normalized_factors(Num(a.recent_fires), a.avg_frp, a.temperature,
                                         a.humidity, a.wind_speed, a.ndvi)
    IN  [normalized |-> normalized,
         weighted_sum |-> weighted_sum(normalized),
         suitability |-> calculate_suitability_score(Num(a.recent_fires), a.avg_frp,
                             a.temperature, a.humidity, a.wind_speed, a.ndvi),
         entry |-> county_entry(COUNTIES[1], a.recent_fires, a.avg_frp,
                       [temperature |-> a.temperature, humidity |-> a.humidity,
                        windSpeed |-> a.wind_speed, windDirection |-> "NW"],
                       a.ndvi)]

RunIdle ==
    /\ fire_df = NoFrame /\ weather_df = NoFrame /\ vegetation_df = NoFrame
    /\ pc = "off" /\ idx = 0 /\ county_data = <<>> /\ processed = <<>>
    /\ returned = None
    /\ fire_files = <<>> /\ weather_files = <<>> /\ vegetation_files = <<>>
    /\ summaries = <<>> /\ saved = None /\ exit_status = -1 /\ processed0 = <<>>

LatestIdle == directory = <<>> /\ latest = None /\ lpc = "off"

\* no request answered yet
NoResponse == [status |-> 0]

\* run_pipeline.py was not started
PipelineOff ==
    [step |-> 0, results |-> << >>, returned |-> None, server |-> FALSE, exit_status |-> -1]

\* ai_analysis.py was not started
AnalysisOff ==
    [pc |-> "off", key |-> FALSE, idx |-> 0, results |-> << >>, returned |-> None,
     exit_status |-> -1]

StageIdle ==
    /\ counties_response = NoResponse
    /\ refresh = << >>
    /\ pipeline = PipelineOff
    /\ analysis = AnalysisOff
    /\ assessments = << >>
    /\ assessment_response = NoResponse

AssignIdle == point = <<0, 0>> /\ assigned = None /\ apc = "off"

ScoreInit ==
    /\ registry = COUNTIES
    /\ args \in Summaries
    /\ args2 = args
    /\ out = NoOutput
    /\ out2 = NoOutput
    /\ spc = "input"
    /\ AssignIdle
    /\ RunIdle
    /\ LatestIdle
    /\ StageIdle

Score ==
    /\ spc = "input"
    /\ out' = Evaluate(args)
    /\ spc' = "scored"
    /\ UNCHANGED <<registry, args, args2, out2, assignVars, runVars, latestVars, stageVars>>

Vary ==
    /\ spc = "scored"
    /\ \E factor \in Factors :
         \E v \in ValuesOf(factor) \ {args[factor]} :
            /\ args2' = [args EXCEPT ![factor] = v]
            /\ out2' = Evaluate(args2')
    /\ spc' = "compared"
    /\ UNCHANGED <<registry, args, out, assignVars, runVars, latestVars, stageVars>>

ScoreNext == Score \/ Vary

ScoreSpec == ScoreInit /\ [][ScoreNext]_vars


(***************************************************************************)
(* Claims about the scoring model, checked under ScoreSpec.                *)
(***************************************************************************)
InRange(x, lo, hi) == Le(Num(lo), x) /\ Le(x, Num(hi))

\* the two evaluations of a compared state differ in exactly this factor
Differ(factor) ==
    /\ spc = "compared"
    /\ args2[factor] # args[factor]

\* the spec's concrete scenario
Scenario ==
    [recent_fires |-> 10, avg_frp |-> Num(2), temperature |-> Num(75),
     humidity |-> Num(40), wind_speed |-> Num(8), ndvi |-> Rat(1, 2)]

\* C1: for any finite, non-negative inputs, including a fire count of 10000,
\* calculate_suitability_score returns a value in the closed range [0, 100].
C1_SuitabilityInRange ==
    /\ (spc # "input" => InRange(out.suitability, 0, 100))
    /\ (spc = "compared" => InRange(out2.suitability, 0, 100))

\* C1 witness: the extreme fire count has been scored, the raw score left
\* the range and the returned value is the bound.
C1_Witness ==
    /\ spc = "scored"
    /\ args.recent_fires = ExtremeFires
    /\ Lt(unclamped_score(out.normalized), Num(0))
    /\ out.suitability = Num(0)

\* C3: for the scenario (10 fires, FRP 2, 75 degrees, humidity 40, wind 8,
\* NDVI 0.5) the normalized factors are [0.5, 0.002, 0.5, 0.4, 0.4, 0.5], the
\* weighted sum is -0.1052, the suitability 44.74 and the riskScore 31.
C3_Scenario ==
    (spc # "input" /\ args = Scenario) =>
        /\ out.normalized = << Rat(5, 10), Rat(2, 1000), Rat(5, 10),
                               Rat(4, 10), Rat(4, 10), Rat(5, 10) >>
        /\ out.weighted_sum = Rat(-1052, 10000)
        /\ out.suitability = Rat(4474, 100)
        /\ out.entry.score = 31

\* C3 witness: the scenario has been scored.
C3_Witness == spc = "scored" /\ args = Scenario /\ out.weighted_sum = Rat(-1052, 10000)

\* C4 as stated: for the scenario (suitability 44.74) the record has
\* riskLevel "Moderate" and riskColor "yellow".
C4_Original ==
    (spc # "input" /\ args = Scenario) =>
        out.entry.riskLevel = "Moderate" /\ out.entry.riskColor = "yellow"

\* C4 amended: for the scenario (suitability 44.74, not above 60) the record
\* has riskLevel "High" and riskColor "red".
C4_ScenarioIsHigh ==
    (spc # "input" /\ args = Scenario) =>
        out.entry.riskLevel = "High" /\ out.entry.riskColor = "red"

\* C4 witness: the scenario's record has been built and its level is High.
C4_Witness ==
    /\ spc = "scored" /\ args = Scenario
    /\ out.suitability = Rat(4474, 100)
    /\ out.entry.riskLevel = "High"

\* the buckets of C5 for one evaluation
Buckets(o) ==
    LET s == o.suitability
        e == o.entry
        low == s.n > 80 * s.d
        moderate == s.n > 60 * s.d /\ s.n <= 80 * s.d
        high == s.n <= 60 * s.d
    IN  /\ (low => e.riskLevel = "Low" /\ e.riskColor = "green")
        /\ (moderate => e.riskLevel = "Moderate" /\ e.riskColor = "yellow")
        /\ (high => e.riskLevel = "High" /\ e.riskColor = "red")
        /\ (e.hazardProximity = "Low" <=> e.riskLevel = "Low")
        /\ (e.hazardProximity = "Medium" <=> e.riskLevel = "Moderate")
        /\ (e.hazardProximity = "High" <=> e.riskLevel = "High")

\* C5: riskLevel/riskColor are Low/green when s > 80, Moderate/yellow when
\* 60 < s <= 80 and High/red when s <= 60; hazardProximity is Low, Medium,
\* High exactly when riskLevel is Low, Moderate, High.
C5_Buckets ==
    /\ (spc # "input" => Buckets(out))
    /\ (spc = "compared" => Buckets(out2))

\* C5 witness: a suitability of exactly 80 was bucketed as Moderate/Medium
\* and, after a change of one factor, one above 80 as Low.
C5_Witness ==
    /\ spc = "compared"
    /\ out.suitability = Num(80)
    /\ out.entry.riskLevel = "Moderate" /\ out.entry.hazardProximity = "Medium"
    /\ out2.entry.riskLevel = "Low" /\ out2.entry.hazardProximity = "Low"

\* both evaluations were clamped to the same end of [0, 100]
BothClamped ==
    \/ out.suitability = Num(0) /\ out2.suitability = Num(0)
    \/ out.suitability = Num(100) /\ out2.suitability = Num(100)

Raises(factor) ==
    (Differ(factor) /\ Lt(args[factor], args2[factor])) =>
        Lt(out.suitability, out2.suitability)

Lowers(factor) ==
    (Differ(factor) /\ Lt(args[factor], args2[factor])) =>
        Gt(out.suitability, out2.suitability)

\* C6 as stated: of two summaries differing only in humidity (or only in
\* NDVI) the one with the larger value has a strictly larger suitability;
\* differing only in wind speed (or only in temperature) a strictly smaller
\* one; over all finite, non-negative inputs.
C6_Original ==
    Raises("humidity") /\ Raises("ndvi") /\ Lowers("wind_speed") /\ Lowers("temperature")

RaisesWeakly(factor) ==
    (Differ(factor) /\ Lt(args[factor], args2[factor])) =>
        /\ Le(out.suitability, out2.suitability)
        /\ (~BothClamped => Lt(out.suitability, out2.suitability))

LowersWeakly(factor) ==
    (Differ(factor) /\ Lt(args[factor], args2[factor])) =>
        /\ Ge(out.suitability, out2.suitability)
        /\ (~BothClamped => Gt(out.suitability, out2.suitability))

\* C6 amended: the larger humidity (NDVI) gives a suitability that is larger
\* or equal, the larger wind speed (temperature) one that is smaller or
\* equal, and the inequality is strict unless both suitabilities are clamped
\* to the same bound (both 0 or both 100).
C6_MonotoneUpToClamp ==
    /\ RaisesWeakly("humidity") /\ RaisesWeakly("ndvi")
    /\ LowersWeakly("wind_speed") /\ LowersWeakly("temperature")

\* C6 witness: two summaries differing only in wind speed were scored, the
\* larger wind speed strictly lowered the suitability, and neither was clamped.
C6_Witness ==
    /\ Differ("wind_speed")
    /\ Lt(args.wind_speed, args2.wind_speed)
    /\ Gt(out.suitability, out2.suitability)
    /\ Gt(out2.suitability, Num(0))

\* C7 as stated: of two summaries differing only in fire count (or only in
\* mean FRP) the one with the larger value has a strictly smaller
\* suitability, for all non-negative values.
C7_Original ==
    /\ ((Differ("recent_fires") /\ args.recent_fires < args2.recent_fires) =>
            Gt(out.suitability, out2.suitability))
    /\ Lowers("avg_frp")

\* C7 amended: the larger fire count (FRP) gives a suitability that is
\* smaller or equal; it is strictly smaller unless both values are at or
\* above the cap (20 fires, FRP 1000) or both suitabilities are clamped to
\* the same bound.
C7_MonotoneUpToCap ==
    /\ ((Differ("recent_fires") /\ args.recent_fires < args2.recent_fires) =>
            /\ Ge(out.suitability, out2.suitability)
            /\ ((args.recent_fires < 20 /\ ~BothClamped) =>
                    Gt(out.suitability, out2.suitability)))
    /\ ((Differ("avg_frp") /\ Lt(args.avg_frp, args2.avg_frp)) =>
            /\ Ge(out.suitability, out2.suitability)
            /\ ((Lt(args.avg_frp, Num(1000)) /\ ~BothClamped) =>
                    Gt(out.suitability, out2.suitability)))

\* C7 witness: two summaries differing only in fire count, the smaller below
\* the cap of 20 and the larger at it, and the suitability strictly dropped.
C7_Witness ==
    /\ Differ("recent_fires")
    /\ args.recent_fires = 10 /\ args2.recent_fires = 20
    /\ Gt(out.suitability, out2.suitability)

AllInUnit(normalized) == \A i \in 1..Len(normalized) : InRange(normalized[i], 0, 1)

\* C8: for any finite, non-negative inputs each of the six normalized
\* factors lies in [0, 1] before the weights are applied.
C8_Original == spc # "input" => AllInUnit(out.normalized)

\* C9: score = floor(0.7*s), firmsScore = floor(100 - 0.5*s) and
\* historicalScore = floor(100 - 0.6*s) for every suitability s in [0, 100];
\* they depend on nothing but s.
C9_DerivedMetrics ==
    /\ spc # "input" =>
         LET s == out.suitability
         IN  /\ out.entry.score = Floor(Mul(s, Rat(7, 10)))
             /\ out.entry.firmsScore = Floor(Sub(Num(100), Mul(s, Rat(1, 2))))
             /\ out.entry.historicalScore = Floor(Sub(Num(100), Mul(s, Rat(3, 5))))
    /\ (spc = "compared" /\ out.suitability = out2.suitability) =>
         /\ out.entry.score = out2.entry.score
         /\ out.entry.firmsScore = out2.entry.firmsScore
         /\ out.entry.historicalScore = out2.entry.historicalScore

\* C9 witness: a suitability with fractional products (61.25) was persisted
\* as 42, 69 and 63, and a different summary with the same suitability too.
C9_Witness ==
    /\ spc = "compared"
    /\ args2 # args
    /\ out.suitability = Rat(6125, 100)
    /\ out2.suitability = out.suitability
    /\ out.entry.score = 42 /\ out.entry.firmsScore = 69 /\ out.entry.historicalScore = 63


(***************************************************************************)
(* Specification AssignSpec: assign_to_county as a pure function of the    *)
(* point and of the registry it scans.  Besides COUNTIES the registry may  *)
(* be a fixture with overlapping boxes, in either order.                   *)
(***************************************************************************)
Bay == [name |-> "Bay", id |-> "bay",
        bounds |-> [minlat |-> 377, maxlat |-> 379, minlon |-> -1224, maxlon |-> -1222]]

OverlapFixture == << COUNTIES[1], Bay, COUNTIES[2] >>
ReverseFixture == << Bay, COUNTIES[1], COUNTIES[2] >>

Registries == {COUNTIES, OverlapFixture, ReverseFixture}

\* how far outside a box the sampled points reach
Margin == 1

Around(lo, hi) == (lo - Margin)..(hi + Margin)

SampleLats == UNION {Around(r.bounds.minlat, r.bounds.maxlat) : r \in {COUNTIES[1], COUNTIES[2], Bay}}
SampleLons == UNION {Around(r.bounds.minlon, r.bounds.maxlon) : r \in {COUNTIES[1], COUNTIES[2], Bay}}

ScoreIdle ==
    /\ args = Scenario /\ args2 = Scenario
    /\ out = NoOutput /\ out2 = NoOutput /\ spc = "off"

AssignInit ==
    /\ registry \in Registries
    /\ point \in SampleLats \X SampleLons
    /\ assigned = None
    /\ apc = "input"
    /\ ScoreIdle
    /\ RunIdle
    /\ LatestIdle
    /\ StageIdle

Assign ==
    /\ apc = "input"
    /\ assigned' = assign_to_county(point[1], point[2])
    /\ apc' = "assigned"
    /\ UNCHANGED <<registry, point, scoreVars, runVars, latestVars, stageVars>>

AssignNext == Assign

AssignSpec == AssignInit /\ [][AssignNext]_vars

\* the point lies in the box of the i-th region, edges included
InBox(i) ==
    LET b == registry[i].bounds
    IN  /\ point[1] \in b.minlat..b.maxlat
        /\ point[2] \in b.minlon..b.maxlon

\* C2: assign_to_county returns the id of the first region in registry order
\* whose bounding box contains the point, all four edges inclusive; of two
\* overlapping regions the earlier wins; none when no box contains the point.
C2_FirstMatch ==
    apc = "assigned" =>
        LET hits == {i \in 1..Len(registry) : InBox(i)}
        IN  IF hits = {} THEN assigned = None
            ELSE \E i \in hits :
                    /\ \A j \in hits : i <= j
                    /\ assigned = registry[i].id

\* C2 witness: a point on the upper latitude edge of the first region and
\* inside a later, overlapping region was assigned to the first.
C2_Witness ==
    /\ apc = "assigned"
    /\ registry = OverlapFixture
    /\ point[1] = registry[1].bounds.maxlat
    /\ InBox(1) /\ InBox(2)
    /\ assigned = "sf"


(***************************************************************************)
(* Specification Spec: one run of process_data_by_county over the latest   *)
(* snapshots of the three sources.                                         *)
(***************************************************************************)
MaxFirePoints == 2

FireRowSamples ==
    { [latitude |-> 377, longitude |-> -1224, frp |-> Num(2)],   \* sf, on its lower latitude edge
      [latitude |-> 378, longitude |-> -1223, frp |-> Num(5)],   \* sf, on its upper corner
      [latitude |-> 340, longitude |-> -1180, frp |-> Num(3)],   \* la, inside
      [latitude |-> 348, longitude |-> -1187, frp |-> Num(1500)],\* la, on a corner
      [latitude |-> 360, longitude |-> -1200, frp |-> Num(7)],   \* in no county
      [latitude |-> 377, longitude |-> -1180, frp |-> Num(4)] }  \* sf latitude, la longitude

RowSeqs(S, n) == UNION {[1..k -> S] : k \in 0..n}

FireFrames ==
    {[columns |-> {"latitude", "longitude", "frp"}, rows |-> r] :
        r \in RowSeqs(FireRowSamples, MaxFirePoints)}
    \cup
    { [columns |-> {"latitude", "longitude"},
       rows |-> << [latitude |-> 377, longitude |-> -1224] >>],
      [columns |-> {"latitude", "longitude"},
       rows |-> << [latitude |-> 360, longitude |-> -1200] >>],
      [columns |-> {"longitude", "frp"},
       rows |-> << [longitude |-> -1224, frp |-> Num(2)] >>] }

WeatherRow1 == [TAVG |-> Num(75), RHAVG |-> Num(40), AWND |-> Num(8)]
WeatherRow2 == [TAVG |-> Num(60), RHAVG |-> Num(90), AWND |-> Num(3)]

WeatherFrames ==
    { [columns |-> {"TAVG", "RHAVG", "AWND"}, rows |-> << >>],
      [columns |-> {"TAVG", "RHAVG", "AWND"}, rows |-> << WeatherRow1 >>],
      [columns |-> {"TAVG", "RHAVG", "AWND"}, rows |-> << WeatherRow1, WeatherRow2 >>],
      [columns |-> {"RHAVG", "AWND"}, rows |-> << [RHAVG |-> Num(40), AWND |-> Num(8)] >>],
      [columns |-> {"date"}, rows |-> << [date |-> 1] >>] }

VegetationFrames ==
    { [columns |-> {"ndvi"}, rows |-> << >>],
      [columns |-> {"ndvi"}, rows |-> << [ndvi |-> Rat(1, 2)] >>],
      [columns |-> {"ndvi"}, rows |-> << [ndvi |-> Rat(1, 2)], [ndvi |-> Rat(1, 5)] >>],
      [columns |-> {"ndvi_value"}, rows |-> << [ndvi_value |-> Rat(2, 5)] >>] }

\* the entries of a directory
File(content, ctime) == [matches |-> TRUE, ctime |-> ctime, content |-> content]
Other(content, ctime) == [matches |-> FALSE, ctime |-> ctime, content |-> content]

FireFrameSF == [columns |-> {"latitude", "longitude", "frp"},
                rows |-> << [latitude |-> 377, longitude |-> -1224, frp |-> Num(2)] >>]
FireFrameLA == [columns |-> {"latitude", "longitude", "frp"},
                rows |-> << [latitude |-> 348, longitude |-> -1187, frp |-> Num(1500)] >>]

\* two entries with these contents, the first older, the second newer or of
\* the same age, in either glob order
Pairs(older, newer) ==
    { << File(older, 1), File(newer, 2) >>, << File(newer, 2), File(older, 1) >>,
      << File(older, 1), File(newer, 1) >>, << File(newer, 1), File(older, 1) >> }

\* data/fire with one snapshot of every shape
FireDirsRich == { << File(f, 1) >> : f \in FireFrames }

\* data/fire empty, with a snapshot that cannot be read, with a file of
\* another name, with two snapshots
FireDirsBasic ==
    { << >>, << File(Unreadable, 1) >>, << Other(FireFrameSF, 1) >>,
      << File(FireFrameSF, 1), Other(FireFrameLA, 2) >>,
      << File(FireFrameSF, 1) >>, << File(FireFrameLA, 1) >> }
    \cup Pairs(FireFrameSF, FireFrameLA) \cup Pairs(FireFrameLA, FireFrameSF)
    \cup Pairs(Unreadable, FireFrameSF) \cup Pairs(FireFrameSF, Unreadable)

WeatherFrame1 == [columns |-> {"TAVG", "RHAVG", "AWND"}, rows |-> << WeatherRow1 >>]
WeatherFrame2 == [columns |-> {"TAVG", "RHAVG", "AWND"}, rows |-> << WeatherRow2 >>]

WeatherDirsBasic == { << File(WeatherFrame1, 1) >>, << File(WeatherFrame1, 1), File(WeatherFrame2, 2) >> }

WeatherDirsRich ==
    { << File(f, 1) >> : f \in WeatherFrames }
    \cup
    { << >>, << File(Unreadable, 1) >>, << Other(WeatherFrame1, 1) >>,
      << File(WeatherFrame1, 1), File(WeatherFrame2, 2) >>,
      << File(WeatherFrame2, 1), File(WeatherFrame1, 2) >>,
      << File(WeatherFrame1, 2), File(Unreadable, 1) >>,
      << File(WeatherFrame1, 1),
         File([columns |-> {"RHAVG", "AWND"}, rows |-> << [RHAVG |-> Num(90), AWND |-> Num(3)] >>], 2) >>,
      << File(WeatherFrame1, 1), Other(WeatherFrame2, 2) >>,
      << File([columns |-> {"TAVG", "RHAVG", "AWND"},
               rows |-> << [TAVG |-> NaN, RHAVG |-> Num(40), AWND |-> Num(8)] >>], 1) >> }

VegetationFrame1 == [columns |-> {"ndvi"}, rows |-> << [ndvi |-> Rat(1, 2)] >>]
VegetationFrame2 == [columns |-> {"ndvi"}, rows |-> << [ndvi |-> Rat(1, 5)] >>]

VegetationDirsBasic == { << File(VegetationFrame1, 1) >> }

VegetationDirsRich ==
    { << File(f, 1) >> : f \in VegetationFrames }
    \cup { << >>, << File(Unreadable, 1) >>, << Other(VegetationFrame1, 1) >> }
    \cup Pairs(VegetationFrame1, VegetationFrame2)
    \cup Pairs(Unreadable, VegetationFrame1)

\* what an earlier successful run, over other snapshots, left in data/processed
PriorData ==
    [id \in {COUNTIES[i].id : i \in 1..Len(COUNTIES)} |->
        LET county_info == CHOOSE c \in {COUNTIES[i] : i \in 1..Len(COUNTIES)} : c.id = id
        IN  process_county(county_info, FireFrameLA, WeatherFrame2, VegetationFrame2)]

PriorOutput == save_processed_data(<< >>, PriorData)

(***************************************************************************)
(* The API's view of data/processed (api/routes/counties.py) and the       *)
(* files generate_sample_data.py puts there.                               *)
(***************************************************************************)
API_COUNTIES == << [id |-> "sf", name |-> "San Francisco"], [id |-> "la", name |-> "Los Angeles"] >>

\* the file names of the model that start with "combined_" and end with ".csv"
CombinedNames == {"combined_20250101.csv"}

\* generate_processed_data: one row per county in the per-county files and in
\* combined_<date>.csv, with the columns the API reads
SampleRow(county_id, suitability_score) ==
    [county_id |-> county_id, suitability_score |-> suitability_score,
     fire_risk |-> Rat(1, 2), vegetation_density |-> Rat(1, 2), historical_fires |-> 100,
     temperature |-> Num(20), humidity |-> Num(50), wind_speed |-> Num(10),
     precipitation |-> Num(1)]

SampleProcessed ==
    [f \in {"sf_processed.csv", "la_processed.csv", "combined_20250101.csv"} |->
        CASE f = "sf_processed.csv" -> << SampleRow("sf", Num(42)) >>
          [] f = "la_processed.csv" -> << SampleRow("la", Num(58)) >>
          [] OTHER -> << SampleRow("sf", Num(42)), SampleRow("la", Num(58)) >>]

\* df["county_id"].unique() and the first row of each id
RECURSIVE first_rows(_, _, _)
first_rows(rows, i, seen) ==
    IF i > Len(rows) THEN << >>
    ELSE IF rows[i].county_id \in seen THEN first_rows(rows, i + 1, seen)
         ELSE << [id |-> rows[i].county_id, suitability_score |-> rows[i].suitability_score] >>
              \o first_rows(rows, i + 1, seen \cup {rows[i].county_id})

\* load_county_data: the rows of the latest combined_*.csv, the empty list
\* when there is none or when reading it raises
load_county_data(files) ==
    LET combined == {f \in DOMAIN files : f \in CombinedNames}
    IN  IF combined = {} THEN << >>
        ELSE LET combined_file == CHOOSE f \in combined : TRUE
                 df == files[combined_file]
             IN  IF \E k \in 1..Len(df) :
                        ~({"county_id", "suitability_score"} \subseteq DOMAIN df[k])
                 THEN << >>
                 ELSE first_rows(df, 1, {})

\* get_counties: the loaded counties, or every county with the default 75.0
get_counties(files) ==
    LET counties == load_county_data(files)
    IN  [status |-> 200,
         body |-> IF Len(counties) = 0
                  THEN [i \in 1..Len(API_COUNTIES) |->
                           [id |-> API_COUNTIES[i].id, suitability_score |-> Rat(75, 1)]]
                  ELSE counties]

\* the snapshots a later run finds
NextFireDirs == { << File(FireFrameSF, 1) >>, << File(FireFrameSF, 1), File(FireFrameLA, 2) >> }

Init ==
    /\ registry = COUNTIES
    /\ \/ /\ fire_files \in FireDirsRich
          /\ weather_files \in WeatherDirsBasic
          /\ vegetation_files \in VegetationDirsBasic
       \/ /\ fire_files \in FireDirsBasic
          /\ weather_files \in WeatherDirsRich
          /\ vegetation_files \in VegetationDirsRich
    /\ processed0 \in {<< >>, PriorOutput, SampleProcessed}
    /\ processed = processed0
    /\ fire_df = NoFrame /\ weather_df = NoFrame /\ vegetation_df = NoFrame
    /\ pc = "start"
    /\ idx = 0
    /\ county_data = << >>
    /\ summaries = << >>
    /\ returned = None
    /\ saved = None
    /\ exit_status = -1
    /\ ScoreIdle
    /\ AssignIdle
    /\ LatestIdle
    /\ StageIdle

\* lines 133-139: the three loaders, and the early return when one gave None
LoadData ==
    /\ pc = "start"
    /\ fire_df' = load_fire_data(fire_files)
    /\ weather_df' = load_weather_data(weather_files)
    /\ vegetation_df' = load_vegetation_data(vegetation_files)
    /\ IF fire_df' = NoFrame \/ weather_df' = NoFrame \/ vegetation_df' = NoFrame
       THEN pc' = "done" /\ returned' = "False" /\ idx' = idx
       ELSE pc' = "county" /\ returned' = returned /\ idx' = 1
    /\ UNCHANGED <<registry, scoreVars, assignVars, latestVars, stageVars, fire_files, weather_files,
                   vegetation_files, county_data, summaries, processed, processed0, saved,
                   exit_status>>

\* lines 144-211: one iteration of the loop over COUNTIES; a KeyError leaves
\* the function (and the process) with an exception
ProcessCounty ==
    /\ pc = "county"
    /\ LET county_info == registry[idx]
       IN  IF RaisesKeyError(fire_df, county_info.bounds)
           THEN /\ pc' = "crashed"
                /\ returned' = "KeyError"
                /\ UNCHANGED <<idx, county_data, summaries>>
           ELSE /\ county_data' = [id \in DOMAIN county_data \cup {county_info.id} |->
                                     IF id = county_info.id
                                     THEN process_county(county_info, fire_df, weather_df,
                                                         vegetation_df)
                                     ELSE county_data[id]]
                /\ summaries' = [id \in DOMAIN summaries \cup {county_info.id} |->
                                     IF id = county_info.id
                                     THEN summary_of(county_info, fire_df, weather_df,
                                                     vegetation_df)
                                     ELSE summaries[id]]
                /\ idx' = idx + 1
                /\ pc' = IF idx = Len(registry) THEN "save" ELSE "county"
                /\ returned' = returned
    /\ UNCHANGED <<registry, scoreVars, assignVars, latestVars, stageVars, fire_files, weather_files,
                   vegetation_files, fire_df, weather_df, vegetation_df, processed,
                   processed0, saved, exit_status>>

\* lines 214-216: save_processed_data runs to its end and returns True; its
\* result is dropped and process_data_by_county returns True
SaveProcessedData ==
    /\ pc = "save"
    /\ processed' = save_processed_data(processed, county_data)
    /\ saved' = "True"
    /\ returned' = "True"
    /\ pc' = "done"
    /\ UNCHANGED <<registry, scoreVars, assignVars, latestVars, stageVars, fire_files, weather_files,
                   vegetation_files, fire_df, weather_df, vegetation_df, idx, county_data,
                   summaries, processed0, exit_status>>

\* lines 214-216 and 297-299: the n-th write of save_processed_data raises
\* (n = Len(registry) + 1 is the combined file); the except clause returns
\* False, which process_data_by_county drops before it returns True
SaveFails ==
    /\ pc = "save"
    /\ \E n \in 1..(Len(registry) + 1) :
          processed' = save_counties_before(processed, county_data, 1, n)
    /\ saved' = "False"
    /\ returned' = "True"
    /\ pc' = "done"
    /\ UNCHANGED <<registry, scoreVars, assignVars, latestVars, stageVars, fire_files, weather_files,
                   vegetation_files, fire_df, weather_df, vegetation_df, idx, county_data,
                   summaries, processed0, exit_status>>

\* lines 315-317: sys.exit(0 if success else 1); an uncaught exception ends
\* the interpreter with status 1
ExitProcess ==
    /\ pc \in {"done", "crashed"}
    /\ exit_status' = IF pc = "done" /\ returned = "True" THEN 0 ELSE 1
    /\ pc' = "exited"
    /\ UNCHANGED <<registry, scoreVars, assignVars, latestVars, stageVars, fire_files, weather_files,
                   vegetation_files, fire_df, weather_df, vegetation_df, idx, county_data,
                   summaries, processed, processed0, saved, returned>>

\* counties.py lines 148-181: GET /api/counties after the run
GetCounties ==
    /\ pc = "exited"
    /\ counties_response = NoResponse
    /\ counties_response' = get_counties(processed)
    /\ UNCHANGED <<registry, scoreVars, assignVars, latestVars, runVars, refresh, pipeline,
                   analysis, assessments, assessment_response>>

\* process_data.py is started again after a run that saved its output
NextRun ==
    /\ pc = "exited" /\ saved = "True" /\ exit_status = 0
    /\ fire_files' \in NextFireDirs
    /\ weather_files' = << File(WeatherFrame1, 1) >>
    /\ vegetation_files' = << File(VegetationFrame1, 1) >>
    /\ processed0' = processed
    /\ fire_df' = NoFrame /\ weather_df' = NoFrame /\ vegetation_df' = NoFrame
    /\ pc' = "start"
    /\ idx' = 0
    /\ county_data' = << >>
    /\ summaries' = << >>
    /\ returned' = None
    /\ saved' = None
    /\ exit_status' = -1
    /\ counties_response' = NoResponse
    /\ UNCHANGED <<registry, scoreVars, assignVars, latestVars, processed, refresh, pipeline,
                   analysis, assessments, assessment_response>>

Next ==
    \/ LoadData \/ ProcessCounty \/ SaveProcessedData \/ SaveFails \/ ExitProcess
    \/ GetCounties \/ NextRun

Spec == Init /\ [][Next]_vars

\* C10: for every region and every set of fire points, the region's
\* recentFires equals the number of fire points for which assign_to_county
\* returns that region's id.
C10_RecentFires ==
    \A id \in DOMAIN county_data :
        county_data[id].recentFires =
            Cardinality({k \in 1..Len(fire_df.rows) :
                assign_to_county(fire_df.rows[k].latitude, fire_df.rows[k].longitude) = id})

\* C10 witness: a run over a point on an edge of sf and a point in no county
\* has finished; sf counts one fire and la none.
C10_Witness ==
    /\ pc = "done" /\ returned = "True"
    /\ Len(fire_df.rows) = 2
    /\ fire_df.rows[1].latitude = 378 /\ fire_df.rows[1].longitude = -1223
    /\ assign_to_county(fire_df.rows[2].latitude, fire_df.rows[2].longitude) = None
    /\ county_data["sf"].recentFires = 1
    /\ county_data["la"].recentFires = 0
    /\ processed["sf_processed.csv"][1].recentFires = 1

\* the three frames were loaded
Loaded == fire_df # NoFrame /\ weather_df # NoFrame /\ vegetation_df # NoFrame

CountyIds == {registry[i].id : i \in 1..Len(registry)}

BoundsOf(id) == (CHOOSE c \in {registry[i] : i \in 1..Len(registry)} : c.id = id).bounds

\* the fire points of the loaded snapshot inside the region's box
PointsIn(id) ==
    {k \in 1..Len(fire_df.rows) :
        /\ fire_df.rows[k].latitude \in BoundsOf(id).minlat..BoundsOf(id).maxlat
        /\ fire_df.rows[k].longitude \in BoundsOf(id).minlon..BoundsOf(id).maxlon}

ProcessedFile(id) == id \o "_processed.csv"

\* C11: a region without fire points gets recentFires 0 and mean FRP 0; a
\* fire snapshot with no point in any region (zero rows included) does not
\* make the run fail, and the saved record carries the zeros.
C11_NoFires ==
    /\ \A id \in DOMAIN summaries :
          PointsIn(id) = {} =>
              /\ summaries[id].recent_fires = 0
              /\ summaries[id].avg_frp = Num(0)
              /\ county_data[id].recentFires = 0
              /\ county_data[id].heatMW = 0
    /\ ( /\ Loaded
         /\ {"latitude", "longitude"} \subseteq fire_df.columns
         /\ \A id \in CountyIds : PointsIn(id) = {} )
       => /\ pc # "crashed"
          /\ pc = "exited" => exit_status = 0
          /\ saved = "True" =>
                \A id \in CountyIds : processed[ProcessedFile(id)][1].recentFires = 0

\* C11 witness: a run over a fire snapshot without rows has saved and exited
\* with status 0, both regions with zero fires and zero mean FRP.
C11_Witness ==
    /\ pc = "exited" /\ exit_status = 0 /\ saved = "True"
    /\ Loaded /\ Len(fire_df.rows) = 0
    /\ summaries["sf"].recent_fires = 0 /\ summaries["la"].avg_frp = Num(0)
    /\ processed["la_processed.csv"][1].recentFires = 0

\* C12 as stated: every field of every regional summary is a number, never
\* NaN, whatever the three record sets hold.
C12_Original ==
    \A id \in DOMAIN summaries :
        /\ ~IsNaN(summaries[id].avg_frp)
        /\ ~IsNaN(summaries[id].temperature)
        /\ ~IsNaN(summaries[id].humidity)
        /\ ~IsNaN(summaries[id].wind_speed)
        /\ ~IsNaN(summaries[id].ndvi)

\* C13: without the TAVG, RHAVG or AWND column the summary takes 70, 50 or 5,
\* without the ndvi column 0.5; the run does not fail for it, and the saved
\* file carries the default.
C13_Defaults ==
    /\ \A id \in DOMAIN summaries :
          /\ "TAVG" \notin weather_df.columns => summaries[id].temperature = Num(70)
          /\ "RHAVG" \notin weather_df.columns => summaries[id].humidity = Num(50)
          /\ "AWND" \notin weather_df.columns => summaries[id].wind_speed = Num(5)
          /\ "ndvi" \notin vegetation_df.columns => summaries[id].ndvi = Rat(1, 2)
    /\ ( /\ Loaded
         /\ {"latitude", "longitude", "frp"} \subseteq fire_df.columns )
       => /\ pc # "crashed"
          /\ pc = "exited" => exit_status = 0
          /\ saved = "True" =>
                \A id \in CountyIds :
                    /\ "TAVG" \notin weather_df.columns =>
                          processed[ProcessedFile(id)][1].weather_temperature = Num(70)
                    /\ "RHAVG" \notin weather_df.columns =>
                          processed[ProcessedFile(id)][1].weather_humidity = Num(50)
                    /\ "AWND" \notin weather_df.columns =>
                          processed[ProcessedFile(id)][1].weather_windSpeed = Num(5)

\* C13 witness: a run over a weather snapshot without TAVG and a vegetation
\* snapshot without ndvi has saved and exited with status 0.
C13_Witness ==
    /\ pc = "exited" /\ exit_status = 0 /\ saved = "True"
    /\ "TAVG" \notin weather_df.columns /\ "RHAVG" \in weather_df.columns
    /\ "ndvi" \notin vegetation_df.columns
    /\ summaries["sf"].temperature = Num(70)
    /\ summaries["sf"].ndvi = Rat(1, 2)
    /\ processed["sf_processed.csv"][1].weather_temperature = Num(70)

\* the loaded snapshots lack one of the columns the claim calls required
LacksRequiredColumn ==
    /\ Loaded
    /\ \/ ~({"latitude", "longitude", "frp"} \subseteq fire_df.columns)
       \/ ~({"TAVG", "RHAVG", "AWND"} \subseteq weather_df.columns)
       \/ "ndvi" \notin vegetation_df.columns

\* the run has failed and has written nothing
FailedUnwritten ==
    /\ pc \notin {"save", "done"}
    /\ saved = None
    /\ processed = processed0
    /\ pc = "exited" => exit_status = 1

\* C14 as stated: a snapshot lacking a required column makes the run end in
\* failure with nothing written.
C14_Original == LacksRequiredColumn => FailedUnwritten

\* C14 amended: without the fire latitude or longitude column the run ends in
\* failure with nothing written, and so it does without frp when some region
\* contains a fire point; without frp and without such a point, and without
\* weather or ndvi columns, the run does not fail.
C14_MissingColumns ==
    Loaded =>
        IF ~({"latitude", "longitude"} \subseteq fire_df.columns)
        THEN FailedUnwritten
        ELSE IF "frp" \notin fire_df.columns /\ \E id \in CountyIds : PointsIn(id) # {}
        THEN FailedUnwritten
        ELSE /\ pc # "crashed"
             /\ pc = "exited" => exit_status = 0

\* C14 witness: a run over a fire snapshot without the latitude column has
\* ended with status 1 and the files of the earlier run are as they were.
C14_Witness ==
    /\ pc = "exited" /\ exit_status = 1
    /\ Loaded /\ "latitude" \notin fire_df.columns
    /\ processed0 # << >> /\ processed = processed0

\* the matching entries no other matching entry is newer than
LatestEntries(entries) ==
    {i \in 1..Len(entries) :
        /\ entries[i].matches
        /\ \A j \in 1..Len(entries) : entries[j].matches => entries[j].ctime <= entries[i].ctime}

NoSnapshot(entries) == \A i \in 1..Len(entries) : ~entries[i].matches

\* no snapshot, or the snapshot the loader reads cannot be read
SourceUnavailable ==
    \/ NoSnapshot(fire_files)
    \/ \A i \in LatestEntries(fire_files) : fire_files[i].content = Unreadable
    \/ NoSnapshot(weather_files)
    \/ \E i \in 1..Len(weather_files) :
          weather_files[i].matches /\ weather_files[i].content = Unreadable
    \/ NoSnapshot(vegetation_files)
    \/ \A i \in LatestEntries(vegetation_files) : vegetation_files[i].content = Unreadable

\* C15: when a source has no snapshot file or its snapshot cannot be read,
\* the run never reaches the aggregation or the save, data/processed stays as
\* it was, process_data_by_county returns False and the exit status is 1.
C15_AbortBeforePersistence ==
    SourceUnavailable =>
        /\ pc \in {"start", "done", "exited"}
        /\ county_data = << >>
        /\ saved = None
        /\ processed = processed0
        /\ pc \in {"done", "exited"} => returned = "False"
        /\ pc = "exited" => exit_status = 1

\* C15 witness: a run whose fire snapshot cannot be read has exited with
\* status 1 after returning False, the files of the earlier run untouched.
C15_Witness ==
    /\ pc = "exited" /\ exit_status = 1 /\ returned = "False"
    /\ fire_files = << File(Unreadable, 1) >>
    /\ processed0 # << >> /\ processed = processed0

(***************************************************************************)
(* LatestSpec: get_latest_file over the listings of a directory.           *)
(***************************************************************************)
MaxFiles == 2
MaxCtime == 2

Entries ==
    [matches : BOOLEAN, ctime : 1..MaxCtime,
     content : {FireFrameSF, FireFrameLA, Unreadable}]

Directories == UNION {[1..k -> Entries] : k \in 0..MaxFiles}

LatestInit ==
    /\ registry = COUNTIES
    /\ directory \in Directories
    /\ latest = None
    /\ lpc = "ready"
    /\ ScoreIdle
    /\ AssignIdle
    /\ RunIdle
    /\ StageIdle

GetLatestFile ==
    /\ lpc = "ready"
    /\ latest' = get_latest_file(directory)
    /\ lpc' = "returned"
    /\ UNCHANGED <<registry, scoreVars, assignVars, runVars, stageVars, directory>>

LatestNext == GetLatestFile

LatestSpec == LatestInit /\ [][LatestNext]_vars

\* C16: get_latest_file returns an entry of the directory that matches the
\* pattern and whose creation time is not earlier than that of any other
\* matching entry; without a matching entry it returns the no-file value.
C16_Latest ==
    lpc = "returned" =>
        IF NoSnapshot(directory) THEN latest = NoFile
        ELSE \E i \in 1..Len(directory) :
                /\ latest = directory[i]
                /\ directory[i].matches
                /\ \A j \in 1..Len(directory) :
                      directory[j].matches => directory[j].ctime <= directory[i].ctime

\* C16 witness: of an older matching entry listed first, a newer matching
\* entry and nothing else, the newer one was returned.
C16_Witness ==
    /\ lpc = "returned"
    /\ Len(directory) = 2
    /\ directory[1].matches /\ directory[1].ctime = 1
    /\ directory[2].matches /\ directory[2].ctime = 2
    /\ directory[1].content # directory[2].content
    /\ latest = directory[2]

\* the frame is the content of a latest matching entry of the directory
IsLatestSnapshot(frame, entries) ==
    \E i \in LatestEntries(entries) : frame = entries[i].content

\* C17 as stated: for each of the three sources the loaded records are those
\* of the single latest snapshot.
C17_Original ==
    (pc # "start" /\ Loaded) =>
        /\ IsLatestSnapshot(fire_df, fire_files)
        /\ IsLatestSnapshot(weather_df, weather_files)
        /\ IsLatestSnapshot(vegetation_df, vegetation_files)

RECURSIVE TotalRows(_, _)
TotalRows(entries, i) ==
    IF i > Len(entries) THEN 0
    ELSE (IF entries[i].matches THEN Len(entries[i].content.rows) ELSE 0)
         + TotalRows(entries, i + 1)

\* the frame holds the rows of every matching entry, and no others
HoldsEverySnapshot(frame, entries) ==
    /\ frame.columns = UNION {entries[i].content.columns :
                                i \in {j \in 1..Len(entries) : entries[j].matches}}
    /\ Len(frame.rows) = TotalRows(entries, 1)
    /\ \A i \in 1..Len(entries) :
          entries[i].matches =>
              \A k \in 1..Len(entries[i].content.rows) :
                  \E m \in 1..Len(frame.rows) :
                      \A c \in entries[i].content.columns :
                          frame.rows[m][c] = entries[i].content.rows[k][c]

\* C17 amended: the fire and the vegetation records are those of the single
\* latest snapshot; the weather records are those of every file of
\* data/weather together.
C17_SnapshotsUsed ==
    (pc # "start" /\ Loaded) =>
        /\ IsLatestSnapshot(fire_df, fire_files)
        /\ HoldsEverySnapshot(weather_df, weather_files)
        /\ IsLatestSnapshot(vegetation_df, vegetation_files)

\* C17 witness: a run over two weather files has exited with status 0, the
\* temperature of a region the mean over both files.
C17_Witness ==
    /\ pc = "exited" /\ exit_status = 0
    /\ weather_files = << File(WeatherFrame1, 1), File(WeatherFrame2, 2) >>
    /\ Len(weather_df.rows) = 2
    /\ summaries["sf"].temperature = Rat(135, 2)
    /\ Len(fire_files) = 2 /\ fire_files[1].ctime < fire_files[2].ctime
    /\ fire_df = fire_files[2].content

\* C18 as stated: when a write of the output fails, process_data_by_county
\* returns False and the exit status is not 0.
C18_Original ==
    saved = "False" =>
        /\ returned = "False"
        /\ pc = "exited" => exit_status # 0

\* C19 as stated: after a successful save the rows of all_counties.csv have
\* the columns of the per-region files, weather_* columns and no nested
\* weatherConditions.
C19_Original ==
    saved = "True" =>
        \A id \in CountyIds :
            \A k \in 1..Len(processed["all_counties.csv"]) :
                /\ DOMAIN processed["all_counties.csv"][k] = DOMAIN processed[ProcessedFile(id)][1]
                /\ "weatherConditions" \notin DOMAIN processed["all_counties.csv"][k]

\* C20 as stated: a finished run has either persisted every output, or has
\* failed and left every file of the earlier run as that run wrote it.
C20_Original ==
    pc \in {"done", "crashed", "exited"} =>
        \/ /\ saved = "True"
           /\ processed = save_processed_data(processed0, county_data)
        \/ /\ saved # "True"
           /\ \A f \in DOMAIN processed0 : processed[f] = processed0[f]

\* C21: after a run that saved its output, also one that follows earlier
\* runs, each per-region file holds exactly one record, the combined file one
\* record per region of the registry, and all of them are this run's.
C21_Overwrite ==
    saved = "True" =>
        /\ \A id \in CountyIds :
              /\ Len(processed[ProcessedFile(id)]) = 1
              /\ processed[ProcessedFile(id)][1].id = id
              /\ processed[ProcessedFile(id)][1].recentFires = summaries[id].recent_fires
              /\ processed[ProcessedFile(id)][1].weather_temperature = summaries[id].temperature
              /\ processed[ProcessedFile(id)][1].suitabilityScore = county_data[id].suitabilityScore
        /\ Len(processed["all_counties.csv"]) = Len(registry)
        /\ \A i \in 1..Len(registry) :
              processed["all_counties.csv"][i] = county_data[registry[i].id]

\* C21 witness: a run that followed a successful run of the model has saved
\* records that differ from those it found.
C21_Witness ==
    /\ pc = "exited" /\ saved = "True"
    /\ processed0 \notin {<< >>, PriorOutput, SampleProcessed}
    /\ Len(processed0["sf_processed.csv"]) = 1
    /\ processed0["sf_processed.csv"] # processed["sf_processed.csv"]
    /\ Len(processed["sf_processed.csv"]) = 1
    /\ Len(processed["all_counties.csv"]) = 2

\* C24 as stated: after a successful run GET /api/counties returns for every
\* region the suitability score the run wrote to the combined file.
C24_Original ==
    (pc = "exited" /\ saved = "True" /\ exit_status = 0 /\ counties_response # NoResponse) =>
        \A i \in 1..Len(registry) :
            \E k \in 1..Len(counties_response.body) :
                /\ counties_response.body[k].id = registry[i].id
                /\ counties_response.body[k].suitability_score =
                       Num(processed["all_counties.csv"][i].suitabilityScore)

(***************************************************************************)
(* StageSpec: the two ways the stages are chained.  run_pipeline.main runs *)
(* the three scripts and then starts the API server; POST /api/data/refresh*)
(* queues the three scripts as background tasks of the request, which run  *)
(* one after another once the response is sent, each request's tasks on    *)
(* their own.  A script's outcome is its exit status.                      *)
(***************************************************************************)
Requests == {"r1", "r2"}

\* mutant: processing is queued before collection
background_tasks_swapped == << "process_data.py", "collect_data.py", "ai_analysis.py" >>

\* data.py lines 291-293: the tasks in the order of the add_task calls
background_tasks == << "collect_data.py", "process_data.py", "ai_analysis.py" >>

\* mutant: a failed task empties the queue
after_task_gated(queue, ok) == IF ok THEN queue ELSE << >>

\* the tasks left to run after one has returned ok: its result is dropped
after_task(queue, ok) == queue

NoRequest == [responded |-> FALSE, queue |-> << >>, running |-> None, finished |-> << >>]

\* run_pipeline.main, steps 1 to 4
PipelineStages == << "collect_data.py", "process_data.py", "ai_analysis.py", "api/main.py" >>

\* mutant: main goes on after a failed stage
after_stage_ungated(step, ok) == step + 1

\* the step main goes to after a stage has reported ok; 0 after the return
after_stage(step, ok) ==
    IF ~ok THEN 0 ELSE step + 1

StageInit ==
    /\ registry = COUNTIES
    /\ refresh = [r \in Requests |-> NoRequest]
    /\ pipeline \in {PipelineOff, [PipelineOff EXCEPT !.step = 1]}
    /\ counties_response = NoResponse
    /\ analysis = AnalysisOff
    /\ assessments = << >>
    /\ assessment_response = NoResponse
    /\ ScoreIdle
    /\ AssignIdle
    /\ RunIdle
    /\ LatestIdle

StageUnchanged ==
    UNCHANGED <<registry, scoreVars, assignVars, runVars, latestVars, counties_response,
                analysis, assessments, assessment_response>>

\* run_pipeline.py lines 108-125: run_script or run_api_server returns ok
RunStage ==
    /\ pipeline.step \in 1..Len(PipelineStages)
    /\ pipeline.returned = None
    /\ \E ok \in BOOLEAN :
          LET step == after_stage(pipeline.step, ok)
              stage == PipelineStages[pipeline.step]
          IN  pipeline' = [pipeline EXCEPT
                  !.results = Append(@, [stage |-> stage, ok |-> ok]),
                  !.step = step,
                  !.server = (stage = "api/main.py" /\ ok),
                  !.returned = IF step = 0 THEN "False" ELSE None]
    /\ UNCHANGED refresh
    /\ StageUnchanged

\* lines 131-137: KeyboardInterrupt ends the loop, main returns True
Interrupt ==
    /\ pipeline.step = Len(PipelineStages) + 1
    /\ pipeline.returned = None
    /\ pipeline' = [pipeline EXCEPT !.returned = "True"]
    /\ UNCHANGED refresh
    /\ StageUnchanged

\* lines 139-141: sys.exit(0 if success else 1)
ExitPipeline ==
    /\ pipeline.returned # None
    /\ pipeline.exit_status = -1
    /\ pipeline' = [pipeline EXCEPT !.exit_status = IF pipeline.returned = "True" THEN 0 ELSE 1]
    /\ UNCHANGED refresh
    /\ StageUnchanged

\* the API answers: started by run_pipeline.py, or on its own by run_api.py
ApiUp == pipeline = PipelineOff \/ pipeline.server

\* data.py lines 284-298: refresh_data queues the tasks and returns
Refresh(r) ==
    /\ ApiUp
    /\ ~refresh[r].responded
    /\ refresh' = [refresh EXCEPT ![r] = [NoRequest EXCEPT !.responded = TRUE,
                                                           !.queue = background_tasks]]
    /\ UNCHANGED pipeline
    /\ StageUnchanged

\* the request's next background task starts: subprocess.run of the script
StartTask(r) ==
    /\ refresh[r].responded
    /\ refresh[r].running = None
    /\ refresh[r].queue # << >>
    /\ refresh' = [refresh EXCEPT ![r].running = Head(refresh[r].queue),
                                  ![r].queue = Tail(refresh[r].queue)]
    /\ UNCHANGED pipeline
    /\ StageUnchanged

\* data.py lines 209-281: the script has ended, the task returns True or False
FinishTask(r) ==
    /\ refresh[r].running # None
    /\ \E ok \in BOOLEAN :
          refresh' = [refresh EXCEPT
              ![r].finished = Append(@, [stage |-> refresh[r].running, ok |-> ok]),
              ![r].running = None,
              ![r].queue = after_task(@, ok)]
    /\ UNCHANGED pipeline
    /\ StageUnchanged

StageNext ==
    \/ RunStage \/ Interrupt \/ ExitPipeline
    \/ \E r \in Requests : Refresh(r) \/ StartTask(r) \/ FinishTask(r)

StageSpec == StageInit /\ [][StageNext]_vars

\* a stage of the request's run has started and not every stage has ended
InFlight(r) ==
    /\ refresh[r].running # None \/ refresh[r].finished # << >>
    /\ refresh[r].running # None \/ refresh[r].queue # << >>

\* C22 as stated: at most one run is in flight at any time.
C22_Original ==
    \A r1 \in Requests : \A r2 \in Requests \ {r1} : ~(InFlight(r1) /\ InFlight(r2))

StagesOf(results) == [i \in 1..Len(results) |-> results[i].stage]

\* C23: within one refresh request no stage starts before the response, and
\* a stage starts only when the stages before it in the order collection,
\* processing, AI analysis have ended; the response waits for none of them.
C23_Sequential ==
    \A r \in Requests :
        /\ ~refresh[r].responded =>
              refresh[r].running = None /\ refresh[r].finished = << >>
        /\ refresh[r].running = "collect_data.py" => refresh[r].finished = << >>
        /\ refresh[r].running = "process_data.py" =>
              StagesOf(refresh[r].finished) = << "collect_data.py" >>
        /\ refresh[r].running = "ai_analysis.py" =>
              StagesOf(refresh[r].finished) = << "collect_data.py", "process_data.py" >>
        /\ (refresh[r].responded /\ refresh[r].running = None /\ refresh[r].queue = << >>) =>
              StagesOf(refresh[r].finished) =
                  << "collect_data.py", "process_data.py", "ai_analysis.py" >>

\* C23 witness: a request was answered with none of its stages started, while
\* the other request's AI analysis runs after its collection and processing.
C23_Witness ==
    /\ refresh["r1"].responded /\ refresh["r1"].running = None
    /\ refresh["r1"].finished = << >> /\ Len(refresh["r1"].queue) = 3
    /\ refresh["r2"].running = "ai_analysis.py"
    /\ StagesOf(refresh["r2"].finished) = << "collect_data.py", "process_data.py" >>

\* C26: main runs the stages in the order collection, processing, AI
\* analysis, API server; a stage runs only after every earlier one reported
\* success; after a failure nothing more runs, the server is not started,
\* main returns False and the exit status is 1.
C26_Gated ==
    LET results == pipeline.results
    IN  /\ \A i \in 1..Len(results) :
              /\ results[i].stage = PipelineStages[i]
              /\ i < Len(results) => results[i].ok
        /\ (\E i \in 1..Len(results) : ~results[i].ok) =>
              /\ pipeline.step = 0
              /\ ~pipeline.server
              /\ pipeline.returned = "False"
              /\ pipeline.exit_status \in {-1, 1}
        /\ pipeline.server => Len(results) = 4 /\ \A i \in 1..4 : results[i].ok
        /\ pipeline.exit_status = 0 => pipeline.returned = "True" /\ pipeline.server

\* C26 witness: processing failed after collection succeeded; main has exited
\* with status 1 without AI analysis and without the server.
C26_Witness ==
    /\ pipeline.results = << [stage |-> "collect_data.py", ok |-> TRUE],
                             [stage |-> "process_data.py", ok |-> FALSE] >>
    /\ pipeline.exit_status = 1
    /\ pipeline.returned = "False"
    /\ ~pipeline.server

\* C27: in a refresh a stage's result gates nothing: whatever the earlier
\* stages returned, every queued stage still runs.
C27_Ungated ==
    \A r \in Requests :
        refresh[r].responded =>
            /\ Len(refresh[r].finished) + Len(refresh[r].queue)
                  + (IF refresh[r].running = None THEN 0 ELSE 1) = 3
            /\ \A i \in 1..Len(refresh[r].finished) :
                  refresh[r].finished[i].stage = background_tasks[i]

\* C27 witness: collection failed, processing and AI analysis ran after it
\* and succeeded.
C27_Witness ==
    refresh["r1"].finished = << [stage |-> "collect_data.py", ok |-> FALSE],
                                [stage |-> "process_data.py", ok |-> TRUE],
                                [stage |-> "ai_analysis.py", ok |-> TRUE] >>

\* the labels of the record follow from its stored suitabilityScore
LabelsFromStored(e) ==
    /\ e.riskLevel = riskLevel(Num(e.suitabilityScore))
    /\ e.riskColor = riskColor(Num(e.suitabilityScore))
    /\ e.hazardProximity = hazard_proximity(Num(e.suitabilityScore))

\* C28 as stated: the thresholds > 80 and > 60 applied to the stored integer
\* suitabilityScore give the stored riskLevel, riskColor and hazardProximity.
C28_Original ==
    /\ spc # "input" => LabelsFromStored(out.entry)
    /\ spc = "compared" => LabelsFromStored(out2.entry)

\* the labels of the thresholds > 80 and > 60 applied to an integer
StoredLevel(k) == IF k > 80 THEN "Low" ELSE IF k > 60 THEN "Moderate" ELSE "High"

\* the labels of the record follow from the unrounded suitability s, whose
\* truncation is stored; they differ from the labels of the stored integer
\* only when s lies strictly between 60 and 61 or between 80 and 81
LabelsFromUnrounded(o) ==
    LET s == o.suitability
        e == o.entry
        k == e.suitabilityScore
        level == IF s.n > 80 * s.d THEN "Low"
                 ELSE IF s.n > 60 * s.d THEN "Moderate" ELSE "High"
    IN  /\ k * s.d <= s.n /\ s.n < (k + 1) * s.d
        /\ e.riskLevel = level
        /\ e.riskColor = (CASE level = "Low" -> "green"
                            [] level = "Moderate" -> "yellow"
                            [] OTHER -> "red")
        /\ e.hazardProximity = (CASE level = "Low" -> "Low"
                                  [] level = "Moderate" -> "Medium"
                                  [] OTHER -> "High")
        /\ StoredLevel(k) # e.riskLevel => (k \in {60, 80} /\ s.n > k * s.d)
        /\ (k \in {60, 80} /\ s.n > k * s.d) => StoredLevel(k) # e.riskLevel

\* C28 amended: riskLevel, riskColor and hazardProximity agree with each
\* other and with the unrounded suitability; the stored suitabilityScore is
\* its truncation, so the labels are those of the stored integer except for
\* a suitability strictly between 60 and 61 or between 80 and 81.
C28_LabelsFromUnrounded ==
    /\ spc # "input" => LabelsFromUnrounded(out)
    /\ spc = "compared" => LabelsFromUnrounded(out2)

\* C28 witness: a suitability of 60.99 is stored as 60 with the labels
\* Moderate, yellow, Medium.
C28_Witness ==
    /\ spc = "scored"
    /\ out.suitability = Rat(6099, 100)
    /\ out.entry.suitabilityScore = 60
    /\ out.entry.riskLevel = "Moderate"
    /\ out.entry.riskColor = "yellow"
    /\ out.entry.hazardProximity = "Medium"

\* humidity in [0,100], NDVI in [0,1], temperature in [50,100], fire count,
\* FRP and wind speed not negative
InRangeSummary(a) ==
    /\ a.recent_fires >= 0
    /\ Ge(a.avg_frp, Num(0))
    /\ InRange(a.temperature, 50, 100)
    /\ InRange(a.humidity, 0, 100)
    /\ Ge(a.wind_speed, Num(0))
    /\ InRange(a.ndvi, 0, 1)

\* C29 as stated: among the in-range summaries there is one with riskLevel
\* Low, one with Moderate and one with High.
C29_Original ==
    spc # "input" =>
        \A level \in {"Low", "Moderate", "High"} :
            \E a \in Summaries :
                /\ InRangeSummary(a)
                /\ riskLevel(calculate_suitability_score(Num(a.recent_fires), a.avg_frp,
                       a.temperature, a.humidity, a.wind_speed, a.ndvi)) = level

\* C29 amended: from in-range data the suitability is at most 67.5, so the
\* riskLevel is Moderate or High and never Low; Moderate and High are both
\* attained.
C29_InRangeBuckets ==
    /\ (spc # "input" /\ InRangeSummary(args)) =>
          /\ Le(out.suitability, Rat(135, 2))
          /\ out.entry.riskLevel \in {"Moderate", "High"}
    /\ (spc = "compared" /\ InRangeSummary(args2)) =>
          /\ Le(out2.suitability, Rat(135, 2))
          /\ out2.entry.riskLevel \in {"Moderate", "High"}

\* C29 witness: the best in-range summary (no fire, no wind, 50 degrees,
\* humidity 100, NDVI 1) scores 67.5, Moderate; with humidity 0 it is High.
C29_Witness ==
    /\ spc = "compared"
    /\ InRangeSummary(args) /\ InRangeSummary(args2)
    /\ args.humidity = Num(100) /\ args2.humidity = Num(0)
    /\ out.suitability = Rat(135, 2) /\ out.entry.riskLevel = "Moderate"
    /\ out2.entry.riskLevel = "High"

(***************************************************************************)
(* AnalysisSpec: ai_analysis.py over data/processed, writing               *)
(* data/assessments, and GET /api/counties/{id}/assessment reading it.     *)
(***************************************************************************)
\* ai_analysis.py line 199
county_ids == << "sf", "la" >>

NoCountyData == [nodata |-> TRUE]

\* ai_analysis.load_county_row (lines 47-67): the first row of the county's
\* processed file; None without the file, when reading it raises, or when it
\* has no row
ai_load_county_data(files, county_id, readable) ==
    LET file_path == county_id \o "_processed.csv"
    IN  IF file_path \notin DOMAIN files THEN NoCountyData
        ELSE IF ~readable THEN NoCountyData
        ELSE IF Len(files[file_path]) = 0 THEN NoCountyData
        ELSE files[file_path][1]

\* what the language model's reply parses to
LLMAssessment ==
    [assessment |-> "suitable with care",
     limitations |-> << [title |-> "wind", description |-> "gusts"] >>,
     recommendations |-> << "burn in the morning" >>]

EmptyJson == [json |-> "{}"]

JSONDecodeError == [raises |-> "JSONDecodeError"]

\* json.loads of the reply's text
json_loads(text) ==
    CASE text = "assessment" -> LLMAssessment
      [] text = "{}" -> EmptyJson
      [] OTHER -> JSONDecodeError

\* the outcomes of openai.chat.completions.create: an exception or a text
Replies ==
    { [raises |-> TRUE, content |-> ""],
      [raises |-> FALSE, content |-> "assessment"],
      [raises |-> FALSE, content |-> "{}"],
      [raises |-> FALSE, content |-> "Here is my assessment"] }

\* lines 151-159: the default assessment
Fallback(county_row) ==
    [assessment |-> "Unable to generate assessment",
     name |-> IF "name" \in DOMAIN county_row THEN county_row.name ELSE "Unknown",
     limitations |-> << [title |-> "Data limitations",
                         description |-> "Assessment could not be generated"] >>,
     recommendations |-> << "Please try again later or contact support." >>]

\* mutant: no default assessment after an error
generate_burn_assessment_no_fallback(county_row, reply) ==
    LET nothing == [assessment |-> "", limitations |-> << >>, recommendations |-> << >>]
    IN  IF reply.raises THEN nothing
        ELSE LET assessment_data == json_loads(reply.content)
             IN  IF assessment_data = JSONDecodeError THEN nothing
                 ELSE assessment_data

\* generate_burn_assessment (lines 69-159)
generate_burn_assessment(county_row, reply) ==
    IF reply.raises THEN Fallback(county_row)
    ELSE LET assessment_data == json_loads(reply.content)
         IN  IF assessment_data = JSONDecodeError THEN Fallback(county_row)
             ELSE assessment_data

\* Python's truth value of what the functions return
truthy(value) == value \notin {NoCountyData, EmptyJson}

\* process_county (lines 178-192) with the outcomes of reading the file, of
\* the model call and of writing the assessment
ai_process_county(files, county_id, readable, reply, writable) ==
    LET county_row == ai_load_county_data(files, county_id, readable)
        assessment == IF truthy(county_row)
                      THEN generate_burn_assessment(county_row, reply)
                      ELSE NoCountyData
    IN  [county_id |-> county_id,
         file |-> IF (county_id \o "_processed.csv") \notin DOMAIN files THEN "missing"
                  ELSE IF ~readable THEN "unreadable"
                  ELSE IF Len(files[county_id \o "_processed.csv"]) = 0 THEN "empty"
                  ELSE "rows",
         reply |-> reply,
         writable |-> writable,
         assessment |-> assessment,
         success |-> truthy(county_row) /\ truthy(assessment) /\ writable]

\* generate_sample_data.generate_assessments: <id>_<date>.json in the schema
\* of BurnAssessment
SampleAssessment(county_id) ==
    [county_id |-> county_id, county_name |-> "sample", timestamp |-> "2025-01-01T00:00:00",
     overall_recommendation |-> "suitable", suitability_score |-> Num(70),
     key_factors |-> << [name |-> "Weather", value |-> Rat(1, 2), weight |-> Rat(1, 2)] >>,
     limitations |-> << [factor |-> "Weather", description |-> "wind", severity |-> "low"] >>,
     recommendations |-> << "monitor" >>, weather_impact |-> "favorable",
     vegetation_analysis |-> "varies", historical_context |-> "moderate"]

SampleAssessments ==
    [f \in {"sf_20250101.json", "la_20250101.json"} |->
        IF f = "sf_20250101.json" THEN SampleAssessment("sf") ELSE SampleAssessment("la")]

NoAssessment == [none |-> TRUE]

\* counties.py load_assessment (lines 111-145): the file of the county with
\* the largest name; "<id>_assessment.json" sorts after "<id>_20250101.json"
load_assessment(files, county_id) ==
    IF (county_id \o "_assessment.json") \in DOMAIN files
    THEN files[county_id \o "_assessment.json"]
    ELSE IF (county_id \o "_20250101.json") \in DOMAIN files
    THEN files[county_id \o "_20250101.json"]
    ELSE NoAssessment

\* the required fields of BurnAssessment and of Limitation (schemas.py)
BurnAssessmentFields ==
    {"county_id", "county_name", "timestamp", "overall_recommendation", "suitability_score",
     "key_factors", "limitations", "recommendations", "weather_impact",
     "vegetation_analysis", "historical_context"}

Validates(assessment) ==
    /\ BurnAssessmentFields \subseteq DOMAIN assessment
    /\ \A i \in 1..Len(assessment.limitations) :
          {"factor", "description", "severity"} \subseteq DOMAIN assessment.limitations[i]

\* counties.py get_assessment (lines 245-290)
get_assessment(files, county_id) ==
    IF \A i \in 1..Len(API_COUNTIES) : API_COUNTIES[i].id # county_id
    THEN [county_id |-> county_id, status |-> 404, body |-> "not found"]
    ELSE LET assessment == load_assessment(files, county_id)
         IN  IF assessment = NoAssessment
             THEN [county_id |-> county_id, status |-> 200, body |-> "No assessment available"]
             ELSE IF Validates(assessment)
             THEN [county_id |-> county_id, status |-> 200, body |-> assessment]
             ELSE [county_id |-> county_id, status |-> 500, body |-> "Internal server error"]

\* data/processed as the analysis finds it
ProcessedDirs ==
    { << >>, PriorOutput, SampleProcessed,
      [PriorOutput EXCEPT !["la_processed.csv"] = << >>],
      [f \in {"sf_processed.csv"} |-> PriorOutput[f]] }

AnalysisInit ==
    /\ registry = COUNTIES
    /\ processed \in ProcessedDirs
    /\ processed0 = processed
    /\ fire_df = NoFrame /\ weather_df = NoFrame /\ vegetation_df = NoFrame
    /\ pc = "off" /\ idx = 0 /\ county_data = << >> /\ returned = None
    /\ fire_files = << >> /\ weather_files = << >> /\ vegetation_files = << >>
    /\ summaries = << >> /\ saved = None /\ exit_status = -1
    /\ assessments \in {<< >>, SampleAssessments}
    /\ analysis \in {[AnalysisOff EXCEPT !.pc = "import", !.key = k] : k \in BOOLEAN}
    /\ assessment_response = NoResponse
    /\ counties_response = NoResponse
    /\ refresh = << >>
    /\ pipeline = PipelineOff
    /\ ScoreIdle
    /\ AssignIdle
    /\ LatestIdle

AnalysisUnchanged ==
    UNCHANGED <<registry, scoreVars, assignVars, runVars, latestVars, counties_response,
                refresh, pipeline>>

\* lines 34-38: without OPENAI_API_KEY the script exits with status 1
Import ==
    /\ analysis.pc = "import"
    /\ analysis' = IF analysis.key
                   THEN [analysis EXCEPT !.pc = "county", !.idx = 1]
                   ELSE [analysis EXCEPT !.pc = "exited", !.exit_status = 1]
    /\ UNCHANGED <<assessments, assessment_response>>
    /\ AnalysisUnchanged

\* lines 203-206 and 161-176: one county; save_assessment writes the file
AnalyseCounty ==
    /\ analysis.pc = "county"
    /\ \E readable \in BOOLEAN, reply \in Replies, writable \in BOOLEAN :
          LET county_id == county_ids[analysis.idx]
              result == ai_process_county(processed, county_id, readable, reply, writable)
          IN  /\ analysis' = [analysis EXCEPT
                      !.results = Append(@, result),
                      !.idx = @ + 1,
                      !.pc = IF analysis.idx = Len(county_ids) THEN "return" ELSE "county"]
              /\ assessments' =
                    IF result.success
                    THEN [f \in DOMAIN assessments \cup {county_id \o "_assessment.json"} |->
                             IF f = county_id \o "_assessment.json" THEN result.assessment
                             ELSE assessments[f]]
                    ELSE assessments
    /\ UNCHANGED assessment_response
    /\ AnalysisUnchanged

\* lines 215-219: all(results.values()) and the exit status
ExitAnalysis ==
    /\ analysis.pc = "return"
    /\ LET success == \A i \in 1..Len(analysis.results) : analysis.results[i].success
       IN  analysis' = [analysis EXCEPT !.pc = "exited",
                                        !.returned = IF success THEN "True" ELSE "False",
                                        !.exit_status = IF success THEN 0 ELSE 1]
    /\ UNCHANGED <<assessments, assessment_response>>
    /\ AnalysisUnchanged

\* GET /api/counties/{county_id}/assessment
GetAssessment ==
    /\ assessment_response = NoResponse
    /\ \E county_id \in {"sf", "la", "xx"} :
          assessment_response' = get_assessment(assessments, county_id)
    /\ UNCHANGED <<analysis, assessments>>
    /\ AnalysisUnchanged

AnalysisNext == Import \/ AnalyseCounty \/ ExitAnalysis \/ GetAssessment

AnalysisSpec == AnalysisInit /\ [][AnalysisNext]_vars

\* C25 as stated: the assessment endpoint answers 200 for a registered
\* county in every state of data/assessments, 404 for an unregistered id.
C25_Original ==
    assessment_response # NoResponse =>
        IF assessment_response.county_id \in {API_COUNTIES[i].id : i \in 1..Len(API_COUNTIES)}
        THEN assessment_response.status = 200
        ELSE assessment_response.status = 404

\* the model call raised or its reply is not JSON
ReplyFailed(x) == x.reply.raises \/ json_loads(x.reply.content) = JSONDecodeError

AllSucceeded == \A i \in 1..Len(analysis.results) : analysis.results[i].success

\* C30 as stated: a failed model call or reply never fails the county; a
\* county fails only for a missing or empty processed file (one that cannot
\* be read counted with them) or a failed write; every county is attempted
\* and the stage succeeds exactly when all succeeded.
C30_Original ==
    /\ \A i \in 1..Len(analysis.results) :
          LET x == analysis.results[i]
          IN  /\ (x.file = "rows" /\ ReplyFailed(x) /\ x.writable) => x.success
              /\ ~x.success => (x.file \in {"missing", "empty", "unreadable"} \/ ~x.writable)
    /\ (analysis.pc = "exited" /\ analysis.key) =>
          /\ Len(analysis.results) = Len(county_ids)
          /\ analysis.exit_status = 0 <=> AllSucceeded

\* C30 amended: with the API key set every county is attempted in order; a
\* failed model call or an unparsable reply gives the fallback assessment and
\* the county succeeds if it is written; a county fails when its processed
\* file is missing, unreadable or empty, when the reply parses to an empty
\* JSON value, or when the write fails; the stage exits with 0 exactly when
\* all succeeded.  Without the key the script exits with 1 at once.
C30_Fallback ==
    /\ \A i \in 1..Len(analysis.results) :
          LET x == analysis.results[i]
          IN  /\ x.county_id = county_ids[i]
              /\ (x.file = "rows" /\ ReplyFailed(x)) =>
                    /\ x.assessment.assessment = "Unable to generate assessment"
                    /\ x.success <=> x.writable
              /\ ~x.success <=>
                    \/ x.file \in {"missing", "unreadable", "empty"}
                    \/ (~x.reply.raises /\ x.reply.content = "{}")
                    \/ ~x.writable
              /\ x.success => assessments[x.county_id \o "_assessment.json"] = x.assessment
    /\ (analysis.pc = "exited" /\ analysis.key) =>
          /\ Len(analysis.results) = Len(county_ids)
          /\ analysis.exit_status = 0 <=> AllSucceeded
    /\ (analysis.pc # "off" /\ ~analysis.key) =>
          /\ analysis.results = << >>
          /\ analysis.pc = "exited" => analysis.exit_status = 1

\* C30 witness: the first county failed on its write, the second was still
\* attempted, its model call raised and the fallback was saved; exit status 1.
C30_Witness ==
    /\ analysis.pc = "exited" /\ analysis.exit_status = 1
    /\ Len(analysis.results) = 2
    /\ ~analysis.results[1].success /\ ~analysis.results[1].writable
    /\ analysis.results[2].reply.raises /\ analysis.results[2].success
    /\ "la_assessment.json" \in DOMAIN assessments
    /\ assessments["la_assessment.json"].assessment = "Unable to generate assessment"

====
